---- MODULE Spec2Model ----
(***************************************************************************)
(* State-machine model of the WASM physics engine, src/lib/physics/src/    *)
(* lib.rs: the Universe object, its constructor and its four methods.      *)
(*                                                                         *)
(* Numbers.  Every f32 of the program is modelled as a fixed-point number  *)
(* with four fractional bits: the integer k stands for k/16.  On that grid *)
(* (and for the magnitudes reached here, far below 2^20) f32 addition,     *)
(* subtraction, negation and comparison are exact, so they are the integer *)
(* operations.  dx*dx + dy*dy is kept at eight fractional bits (units of   *)
(* 1/256), where it is exact as well, so the three distance thresholds are *)
(* decided exactly as the code decides them.  The remaining operations     *)
(* (the product by G, the two divisions, the square root) round their      *)
(* result to the nearest grid value; like an f32 result away from          *)
(* underflow, a non-zero quotient is never rounded to zero.  NaN and the   *)
(* infinities are outside the modelled inputs.  The lines written to the   *)
(* host's console (console::log_1) are no part of the Universe and are     *)
(* left out: the debug flag is state, what it prints is not.               *)
(***************************************************************************)
EXTENDS Integers, Sequences, FiniteSets, TLC

(***************************************************************************)
(* Bounds of the model.                                                    *)
(***************************************************************************)
MaxParticles == 2
MaxBodies == 2
MaxTicks == 2

(***************************************************************************)
(* Number representation.                                                  *)
(***************************************************************************)
Scale == 16
RandomDen == 1600

Abs(a) == IF a < 0 THEN 0 - a ELSE a

Sgn(a) == IF a < 0 THEN 0 - 1 ELSE IF a > 0 THEN 1 ELSE 0

\* n / d for d > 0, rounded to the nearest integer (halves away from zero);
\* a non-zero quotient keeps a magnitude of at least one grid unit.
RoundDiv(n, d) ==
  LET m == Abs(n)
      q == (2 * m + d) \div (2 * d)
  IN  Sgn(n) * (IF m > 0 /\ q = 0 THEN 1 ELSE q)

RECURSIVE SqrtSearch(_, _, _)
SqrtSearch(n, lo, hi) ==
  IF lo >= hi THEN lo
  ELSE LET mid == (lo + hi + 1) \div 2
       IN  IF mid * mid <= n THEN SqrtSearch(n, mid, hi)
           ELSE SqrtSearch(n, lo, mid - 1)

\* f32::sqrt of a value held in units of 1/256, result in units of 1/16.
Sqrt(n) ==
  LET r == SqrtSearch(n, 0, 46340)
  IN  IF n - r * r > r THEN r + 1 ELSE r

(***************************************************************************)
(* Program constants (whole numbers of the source; Fix puts them on the    *)
(* grid, FixSq on the grid of squared distances).                          *)
(***************************************************************************)
Fix(a) == a * Scale

FixSq(a) == a * Scale * Scale

\* const G: f32 = 0.1, as the fraction G[1] / G[2]
G == <<1, 10>>

StarMinDistSq == 10
BlackHoleMinDistSq == 25
MarkDistSq == 1
Sentinel == 0 - 100
Cutoff == 0 - 50
SizeOfParticle == 24
IsizeMax == 2147483647
UsizeHalf == 65536

(***************************************************************************)
(* Inputs.  js_sys::Math::random() returns r / RandomDen for r in          *)
(* 0 .. RandomDen - 1; a particle consumes five draws (x, y, z, vx, vy).   *)
(***************************************************************************)
ParticleDraws ==
  { <<160, 800, 800, 800, 800>>,       \* (10, 50) at rest
    <<160, 800, 800, 1300, 800>>,      \* (10, 50), vx = +1/16
    <<1599, 1599, 0, 1300, 1300>> }    \* (99.9375, 99.9375), v = (+1/16, +1/16)

ParticleCounts == {0 - 65537, 0 - 1} \cup (0 .. MaxParticles)

Widths == {Fix(100)}

Heights == {Fix(100)}

\* debug_mode only gates what is written to the console
DebugModes == {TRUE}

\* <<x, y, mass>>
StarInputs ==
  { <<Fix(50), Fix(50), Fix(1000)>>,
    <<Fix(7), Fix(49), Fix(1000)>> }

BlackHoleInputs ==
  { <<Fix(10), Fix(50), Fix(1000)>>,
    <<Fix(16), Fix(50), Fix(18000)>>,
    <<Fix(5), Fix(50), Fix(18000)>>,
    <<Fix(11), Fix(50), Fix(1000)>> }

(***************************************************************************)
(* State.                                                                  *)
(***************************************************************************)
VARIABLES
  state,           \* "unconstructed" | "live" | "panicked"
  particle_count,  \* the constructor's argument (kept for the record)
  width, height, particles, stars, black_holes, debug_mode,  \* struct Universe
  data,            \* the Vec<f32> get_particles_data last returned since the
                   \* last tick (the host's frame), <<>> when there is none
  snap_fresh,      \* get_particles_data was called since the last tick
  ticks,           \* number of tick calls so far
  created          \* the particles as the constructor made them

vars == <<state, particle_count, width, height, particles, stars, black_holes,
          debug_mode, data, snap_fresh, ticks, created>>

universe == <<width, height, particles, stars, black_holes, debug_mode>>

Init ==
  /\ state = "unconstructed"
  /\ particle_count = 0
  /\ width = 0
  /\ height = 0
  /\ particles = <<>>
  /\ stars = <<>>
  /\ black_holes = <<>>
  /\ debug_mode = FALSE
  /\ data = <<>>
  /\ snap_fresh = FALSE
  /\ ticks = 0
  /\ created = <<>>

(***************************************************************************)
(* Universe::new                                                           *)
(***************************************************************************)
\* particle_count as usize on wasm32, as its two 16-bit halves <<hi, lo>>
AsUsize(n) == <<(n \div UsizeHalf) % UsizeHalf, n % UsizeHalf>>

\* Vec::with_capacity panics ("capacity overflow") when the byte size of the
\* buffer exceeds isize::MAX.
CapacityOverflow(n) ==
  LET cap == AsUsize(n)
      max == IsizeMax \div SizeOfParticle
      hi  == max \div UsizeHalf
      lo  == max % UsizeHalf
  IN  cap[1] > hi \/ (cap[1] = hi /\ cap[2] > lo)

\* the i-th Particle pushed by the constructor's loop, from its five draws;
\* id is its index at construction, kept to follow it through retain
MakeParticle(d, w, h, i) ==
  [ id |-> i,
    x  |-> RoundDiv(d[1] * w, RandomDen),
    y  |-> RoundDiv(d[2] * h, RandomDen),
    z  |-> RoundDiv(d[3] * Scale, RandomDen),
    vx |-> RoundDiv((2 * d[4] - RandomDen) * Scale, 10 * RandomDen),
    vy |-> RoundDiv((2 * d[5] - RandomDen) * Scale, 10 * RandomDen),
    vz |-> 0 ]

new ==
  /\ state = "unconstructed"
  /\ \E w \in Widths, h \in Heights, n \in ParticleCounts, dbg \in DebugModes :
       /\ particle_count' = n
       /\ IF CapacityOverflow(n)
          THEN /\ state' = "panicked"
               /\ UNCHANGED <<width, height, particles, stars, black_holes,
                              debug_mode, created>>
          ELSE /\ state' = "live"
               /\ \E draws \in [1 .. (IF n > 0 THEN n ELSE 0) -> ParticleDraws] :
                    /\ particles' = [i \in DOMAIN draws |-> MakeParticle(draws[i], w, h, i)]
                    /\ created' = particles'
               /\ width' = w
               /\ height' = h
               /\ stars' = <<>>
               /\ black_holes' = <<>>
               /\ debug_mode' = dbg
  /\ UNCHANGED <<data, snap_fresh, ticks>>

(***************************************************************************)
(* Universe::tick                                                          *)
(***************************************************************************)
DistSq(bx, by, px, py) == (bx - px) * (bx - px) + (by - py) * (by - py)

\* (G * mass) / dist_sq
Force(mass, dist_sq) == RoundDiv(RoundDiv(G[1] * mass, G[2]) * Scale * Scale, dist_sq)

\* force * d / dist_sq.sqrt()
Component(force, d, dist_sq) == RoundDiv(force * d, Sqrt(dist_sq))

\* the star loop without the softening threshold
StarStepUnsoftened(s, star) ==
  LET dx == star.x - s.p.x
      dy == star.y - s.p.y
      dist_sq == DistSq(star.x, star.y, s.p.x, s.p.y)
  IN  IF dist_sq > 0
      THEN [s EXCEPT !.fx = @ + Component(Force(star.mass, dist_sq), dx, dist_sq),
                     !.fy = @ + Component(Force(star.mass, dist_sq), dy, dist_sq)]
      ELSE s

\* One iteration of the star loop; s = [fx, fy, p] is the loop's state.
StarStep(s, star) ==
  LET dx == star.x - s.p.x
      dy == star.y - s.p.y
      dist_sq == DistSq(star.x, star.y, s.p.x, s.p.y)
  IN  IF dist_sq > FixSq(StarMinDistSq)
      THEN [s EXCEPT !.fx = @ + Component(Force(star.mass, dist_sq), dx, dist_sq),
                     !.fy = @ + Component(Force(star.mass, dist_sq), dy, dist_sq)]
      ELSE s

\* the black-hole loop with the attraction threshold included (>= 25.0)
BlackHoleStepInclusive(s, black_hole) ==
  LET dx == black_hole.x - s.p.x
      dy == black_hole.y - s.p.y
      dist_sq == DistSq(black_hole.x, black_hole.y, s.p.x, s.p.y)
  IN  IF dist_sq >= FixSq(BlackHoleMinDistSq)
      THEN [s EXCEPT !.fx = @ + Component(Force(black_hole.mass, dist_sq), dx, dist_sq),
                     !.fy = @ + Component(Force(black_hole.mass, dist_sq), dy, dist_sq)]
      ELSE IF dist_sq < FixSq(MarkDistSq)
      THEN [s EXCEPT !.p.x = Fix(Sentinel)]
      ELSE s

\* One iteration of the black-hole loop.
BlackHoleStep(s, black_hole) ==
  LET dx == black_hole.x - s.p.x
      dy == black_hole.y - s.p.y
      dist_sq == DistSq(black_hole.x, black_hole.y, s.p.x, s.p.y)
  IN  IF dist_sq > FixSq(BlackHoleMinDistSq)
      THEN [s EXCEPT !.fx = @ + Component(Force(black_hole.mass, dist_sq), dx, dist_sq),
                     !.fy = @ + Component(Force(black_hole.mass, dist_sq), dy, dist_sq)]
      ELSE IF dist_sq < FixSq(MarkDistSq)
      THEN [s EXCEPT !.p.x = Fix(Sentinel)]
      ELSE s

\* the loop's state after the first k stars
RECURSIVE StarLoop(_, _, _)
StarLoop(s, ss, k) ==
  IF k = 0 THEN s ELSE StarStep(StarLoop(s, ss, k - 1), ss[k])

\* the loop's state after the first k black holes
RECURSIVE BlackHoleLoop(_, _, _)
BlackHoleLoop(s, bs, k) ==
  IF k = 0 THEN s ELSE BlackHoleStep(BlackHoleLoop(s, bs, k - 1), bs[k])

\* fx, fy and the particle as the two loops leave them
Accumulate(p, ss, bs) ==
  BlackHoleLoop(StarLoop([fx |-> 0, fy |-> 0, p |-> p], ss, Len(ss)), bs, Len(bs))

\* vx += fx; vy += fy; x += vx; y += vy
Integrate(s) ==
  [s.p EXCEPT !.vx = @ + s.fx,
              !.vy = @ + s.fy,
              !.x  = @ + s.p.vx + s.fx,
              !.y  = @ + s.p.vy + s.fy]

OutsideX(p, w) == p.x < 0 \/ p.x > w

OutsideY(p, h) == p.y < 0 \/ p.y > h

\* reflection that stops the particle instead of turning it round
ReflectStop(p, w, h) ==
  [p EXCEPT !.vx = IF OutsideX(p, w) THEN 0 ELSE @,
            !.vy = IF OutsideY(p, h) THEN 0 ELSE @]

Reflect(p, w, h) ==
  [p EXCEPT !.vx = IF OutsideX(p, w) THEN 0 - @ ELSE @,
            !.vy = IF OutsideY(p, h) THEN 0 - @ ELSE @]

\* the body of the loop over particles
UpdateParticle(p, ss, bs, w, h) == Reflect(Integrate(Accumulate(p, ss, bs)), w, h)

\* retain with the cutoff itself kept
KeepAtCutoff(p) == p.x >= Fix(Cutoff)

\* the closure of retain
Keep(p) == p.x > Fix(Cutoff)

\* the filtered particles appended to the updated ones instead of replacing them
TickParticlesExtend(ps, ss, bs, w, h) ==
  LET updated == [i \in 1 .. Len(ps) |-> UpdateParticle(ps[i], ss, bs, w, h)]
  IN  updated \o SelectSeq(updated, Keep)

TickParticles(ps, ss, bs, w, h) ==
  SelectSeq([i \in 1 .. Len(ps) |-> UpdateParticle(ps[i], ss, bs, w, h)], Keep)

tick ==
  /\ state = "live"
  /\ ticks < MaxTicks
  /\ particles' = TickParticles(particles, stars, black_holes, width, height)
  /\ ticks' = ticks + 1
  /\ data' = <<>>
  /\ snap_fresh' = FALSE
  /\ UNCHANGED <<state, particle_count, width, height, stars, black_holes,
                 debug_mode, created>>

(***************************************************************************)
(* Universe::get_particles_data                                            *)
(***************************************************************************)
\* the snapshot built back to front
RECURSIVE PushAllReversed(_, _)
PushAllReversed(ps, k) ==
  IF k = 0 THEN <<>>
  ELSE <<ps[k].x, ps[k].y, ps[k].z>> \o PushAllReversed(ps, k - 1)

RECURSIVE PushAll(_, _)
PushAll(ps, k) ==
  IF k = 0 THEN <<>>
  ELSE PushAll(ps, k - 1) \o <<ps[k].x, ps[k].y, ps[k].z>>

get_particles_data ==
  /\ state = "live"
  /\ data' = PushAll(particles, Len(particles))
  /\ snap_fresh' = TRUE
  /\ UNCHANGED <<state, particle_count, width, height, particles, stars,
                 black_holes, debug_mode, ticks, created>>

(***************************************************************************)
(* Universe::add_star, Universe::add_black_hole                            *)
(***************************************************************************)
add_star ==
  /\ state = "live"
  /\ Len(stars) + Len(black_holes) < MaxBodies
  /\ \E in \in StarInputs :
       stars' = Append(stars, [x |-> in[1], y |-> in[2], mass |-> in[3],
                               age |-> 0, is_ignited |-> TRUE])
  /\ UNCHANGED <<state, particle_count, width, height, particles, black_holes,
                 debug_mode, data, snap_fresh, ticks, created>>

add_black_hole ==
  /\ state = "live"
  /\ Len(stars) + Len(black_holes) < MaxBodies
  /\ \E in \in BlackHoleInputs :
       black_holes' = Append(black_holes, [x |-> in[1], y |-> in[2], mass |-> in[3]])
  /\ UNCHANGED <<state, particle_count, width, height, particles, stars,
                 debug_mode, data, snap_fresh, ticks, created>>

Next ==
  \/ new
  \/ tick
  \/ get_particles_data
  \/ add_star
  \/ add_black_hole

Spec == Init /\ [][Next]_vars

(***************************************************************************)
(* Properties.                                                             *)
(***************************************************************************)
Indices(seq) == 1 .. Len(seq)

\* where particle p of the current state is after the step, if anywhere
After(p) == {j \in 1 .. Len(particles') : particles'[j].id = p.id}

TickStep == ticks' # ticks

\* p is at squared distance < 1 from some black hole of bs
NearBlackHole(p, bs) ==
  \E k \in Indices(bs) : DistSq(bs[k].x, bs[k].y, p.x, p.y) < FixSq(MarkDistSq)

\* C1: a negative particle_count does not make construction fail; it yields a
\* live Universe with no particles, as particle_count = 0 does.
C1_NegativeCountBuildsEmpty ==
  (state # "unconstructed" /\ particle_count < 0)
    => (state = "live" /\ particles = <<>>)

\* C2: once constructed, no step increases the particle count, decreases the
\* star count or the black-hole count, or changes width or height.
C2_CountsAndBounds ==
  [][state = "live" =>
       /\ Len(particles') <= Len(particles)
       /\ Len(stars') >= Len(stars)
       /\ Len(black_holes') >= Len(black_holes)
       /\ width' = width
       /\ height' = height]_vars

C2_Witness ==
  /\ ticks > 0
  /\ Len(particles) < Len(created)
  /\ Len(stars) > 0
  /\ Len(black_holes) > 0

\* C3: one update gives the same surviving particles, positions and velocities
\* for every order of the black-hole collection.
C3_BlackHoleOrderIrrelevant ==
  \A perm \in Permutations(Indices(black_holes)) :
    TickParticles(particles, stars, [k \in Indices(black_holes) |-> black_holes[perm[k]]],
                  width, height)
      = TickParticles(particles, stars, black_holes, width, height)

\* C4: a particle that an update removes was at squared distance < 1 from some
\* black hole during that update.
C4_OnlyMarkedRemoved ==
  [][TickStep =>
       \A i \in Indices(particles) :
         After(particles[i]) = {} =>
           \/ NearBlackHole(particles[i], black_holes)
           \/ Accumulate(particles[i], stars, black_holes).p.x = Fix(Sentinel)]_vars

\* C5: a particle at squared distance < 1 from a black hole when an update
\* starts ends it at x = -100 + (old vx + accumulated fx), and is still in the
\* collection exactly when that value is > -50.
C5_MarkedThenIntegrated ==
  [][TickStep =>
       \A i \in Indices(particles) :
         NearBlackHole(particles[i], black_holes) =>
           LET p   == particles[i]
               nvx == p.vx + Accumulate(p, stars, black_holes).fx
               nx  == Fix(Sentinel) + nvx
           IN  /\ After(p) # {} <=> nx > Fix(Cutoff)
               /\ \A j \in After(p) : particles'[j].x = nx]_vars

\* a marked particle that the filter kept: x = -49.9375
C5_Witness ==
  /\ ticks > 0
  /\ black_holes # <<>>
  /\ \E j \in Indices(particles) : particles[j].x = Fix(Cutoff) + 1

\* the statement of C6 for black holes k .. Len(bs), visited from loop state s
RECURSIVE BandRespected(_, _, _)
BandRespected(s, bs, k) ==
  IF k > Len(bs) THEN TRUE
  ELSE \A after \in {BlackHoleStep(s, bs[k])} :
         \A d2 \in {DistSq(bs[k].x, bs[k].y, s.p.x, s.p.y)} :
           /\ (d2 >= FixSq(MarkDistSq) /\ d2 <= FixSq(BlackHoleMinDistSq)) => after = s
           /\ (after.fx # s.fx \/ after.fy # s.fy) => d2 > FixSq(BlackHoleMinDistSq)
           /\ after.p # s.p => d2 < FixSq(MarkDistSq)
           /\ BandRespected(after, bs, k + 1)

C7_StarAttraction ==
  [][(TickStep /\ black_holes = <<>>) =>
       \A i \in Indices(particles) : \A j \in After(particles[i]) :
         LET p   == particles[i]
             q   == particles'[j]
             dvx == (IF OutsideX(q, width) THEN 0 - q.vx ELSE q.vx) - p.vx
             dvy == (IF OutsideY(q, height) THEN 0 - q.vy ELSE q.vy) - p.vy
             far == {k \in Indices(stars) :
                       DistSq(stars[k].x, stars[k].y, p.x, p.y) > FixSq(StarMinDistSq)}
         IN  /\ far = {} => (dvx = 0 /\ dvy = 0)
             /\ \A k \in far :
                  (far = {k} /\ stars[k].mass > 0) =>
                     /\ Sgn(dvx) = Sgn(stars[k].x - p.x)
                     /\ Sgn(dvy) = Sgn(stars[k].y - p.y)
             /\ ( /\ p.x = Fix(10) /\ p.y = Fix(50) /\ p.vx = 0 /\ p.vy = 0
                  /\ Len(stars) = 1
                  /\ stars[1].x = Fix(50) /\ stars[1].y = Fix(50)
                  /\ stars[1].mass = Fix(1000) )
                  => (q.vx = 1 /\ q.vy = 0 /\ q.x = Fix(10) + 1 /\ q.y = Fix(50))]_vars

\* the scenario of the spec after its one update
C7_Witness ==
  /\ ticks = 1
  /\ black_holes = <<>>
  /\ Len(stars) = 1 /\ stars[1].x = Fix(50) /\ stars[1].mass = Fix(1000)
  /\ \E j \in Indices(particles) :
       /\ particles[j].x = Fix(10) + 1 /\ particles[j].y = Fix(50)
       /\ particles[j].vx = 1 /\ particles[j].vy = 0
       /\ created[particles[j].id].vx = 0

\* data is 3 numbers per particle of ps, (x, y, z), in the order of ps
Layout(d, ps) ==
  /\ Len(d) = 3 * Len(ps)
  /\ \A i \in Indices(ps) :
       /\ d[3 * i - 2] = ps[i].x
       /\ d[3 * i - 1] = ps[i].y
       /\ d[3 * i] = ps[i].z

\* C8: get_particles_data changes nothing of the Universe, returns 3 numbers
\* per particle in collection order, and returns the same sequence as the last
\* call when no tick came between them (appends of bodies may have).
C8_SnapshotPure ==
  /\ [](snap_fresh => Layout(data, particles))
  /\ [][get_particles_data =>
          /\ UNCHANGED universe
          /\ Layout(data', particles)
          /\ snap_fresh => data' = data]_vars

\* a snapshot of two particles, taken after a tick, with a star appended since
C8_Witness ==
  /\ snap_fresh
  /\ ticks > 0
  /\ Len(data) = 6
  /\ stars # <<>>

\* C9: when an update ends with a kept particle outside [0, width] (or
\* [0, height]) its velocity component has been negated and its position not
\* clamped, and the next update ends with that particle back inside.
C9_OneFrameOutside ==
  [][TickStep =>
       \A i \in Indices(particles) :
         LET p == particles[i]
             s == Accumulate(p, stars, black_holes)
         IN  /\ \A j \in After(p) :
                  LET q == particles'[j]
                  IN  /\ OutsideX(q, width) =>
                           (q.vx = 0 - (p.vx + s.fx) /\ q.x = s.p.x + p.vx + s.fx)
                      /\ OutsideY(q, height) =>
                           (q.vy = 0 - (p.vy + s.fy) /\ q.y = p.y + p.vy + s.fy)
             /\ OutsideX(p, width) =>
                  \E j \in After(p) : ~OutsideX(particles'[j], width)
             /\ OutsideY(p, height) =>
                  \E j \in After(p) : ~OutsideY(particles'[j], height)]_vars

====
